---- MODULE Spec2Model ----
(***************************************************************************)
(* Model of my_stats.py: the statistics passes over a Surface's population *)
(* (get_stats and its sub-passes) and the series reshaping of output_plot. *)
(*                                                                         *)
(* Numbers.  The passes compute with Python ints and floats.  A float is   *)
(* an IEEE-754 double: here a record [m, e] standing for m * 2^e, with m   *)
(* a natural number of exactly 53 bits (or 0), held as little-endian       *)
(* limbs of 15 bits so that no intermediate exceeds 32 bits.  Division     *)
(* and multiplication round to nearest, ties to even, as the hardware      *)
(* does.  Exponent range (overflow, subnormals) is never approached by the *)
(* values of the passes and is not modelled.                               *)
(***************************************************************************)
EXTENDS Integers, Sequences, FiniteSets, TLC

(***************************************************************************)
(* Natural numbers of arbitrary size: little-endian limbs, no leading zero *)
(* limb, <<>> is 0.                                                        *)
(***************************************************************************)
LimbBits == 15

Base == 2^LimbBits

MantBits == 53

Limb(a, i) == IF i <= Len(a) THEN a[i] ELSE 0

RECURSIVE BNNorm(_)
BNNorm(a) ==
    IF a = <<>> THEN <<>>
    ELSE IF a[Len(a)] = 0 THEN BNNorm(SubSeq(a, 1, Len(a) - 1))
    ELSE a

RECURSIVE BNOfNat(_)
BNOfNat(n) == IF n = 0 THEN <<>> ELSE <<n % Base>> \o BNOfNat(n \div Base)

RECURSIVE BNAddFrom(_, _, _, _)
BNAddFrom(a, b, i, c) ==
    IF i > Len(a) /\ i > Len(b)
    THEN (IF c = 0 THEN <<>> ELSE <<c>>)
    ELSE LET s == Limb(a, i) + Limb(b, i) + c
         IN  <<s % Base>> \o BNAddFrom(a, b, i + 1, s \div Base)

BNAdd(a, b) == BNAddFrom(a, b, 1, 0)

\* a - b for a >= b
RECURSIVE BNSubFrom(_, _, _, _)
BNSubFrom(a, b, i, c) ==
    IF i > Len(a) THEN <<>>
    ELSE LET s == a[i] - Limb(b, i) - c
         IN  IF s < 0 THEN <<s + Base>> \o BNSubFrom(a, b, i + 1, 1)
             ELSE <<s>> \o BNSubFrom(a, b, i + 1, 0)

BNSub(a, b) == BNNorm(BNSubFrom(a, b, 1, 0))

\* -1, 0, 1 as a < b, a = b, a > b; compares from limb i downwards
RECURSIVE BNCmpFrom(_, _, _)
BNCmpFrom(a, b, i) ==
    IF i = 0 THEN 0
    ELSE IF a[i] < b[i] THEN -1
    ELSE IF a[i] > b[i] THEN 1
    ELSE BNCmpFrom(a, b, i - 1)

BNCmp(a, b) ==
    IF Len(a) < Len(b) THEN -1
    ELSE IF Len(a) > Len(b) THEN 1
    ELSE BNCmpFrom(a, b, Len(a))

\* a * k for 0 <= k < Base
RECURSIVE BNMulSmallFrom(_, _, _, _)
BNMulSmallFrom(a, k, i, c) ==
    IF i > Len(a) THEN (IF c = 0 THEN <<>> ELSE <<c>>)
    ELSE LET s == a[i] * k + c
         IN  <<s % Base>> \o BNMulSmallFrom(a, k, i + 1, s \div Base)

BNMulSmall(a, k) == IF k = 0 THEN <<>> ELSE BNMulSmallFrom(a, k, 1, 0)

BNShiftLimbs(a, n) == IF a = <<>> THEN <<>> ELSE [i \in 1..n |-> 0] \o a

RECURSIVE BNMulFrom(_, _, _)
BNMulFrom(a, b, i) ==
    IF i > Len(b) THEN <<>>
    ELSE BNAdd(BNShiftLimbs(BNMulSmall(a, b[i]), i - 1), BNMulFrom(a, b, i + 1))

BNMul(a, b) == BNMulFrom(a, b, 1)

\* remainder of the limbs i..Len(a) of a (as a number) divided by n, 0 < n < Base
RECURSIVE BNRemFrom(_, _, _)
BNRemFrom(a, n, i) ==
    IF i > Len(a) THEN 0 ELSE (BNRemFrom(a, n, i + 1) * Base + a[i]) % n

\* quotient and remainder of a by n, 0 < n < Base
BNDivSmall(a, n) ==
    [q |-> BNNorm([i \in 1..Len(a) |->
                      (BNRemFrom(a, n, i + 1) * Base + a[i]) \div n]),
     r |-> BNRemFrom(a, n, 1)]

RECURSIVE NatBitLen(_)
NatBitLen(n) == IF n = 0 THEN 0 ELSE 1 + NatBitLen(n \div 2)

BNBitLen(a) ==
    IF a = <<>> THEN 0 ELSE LimbBits * (Len(a) - 1) + NatBitLen(a[Len(a)])

BNShl(a, d) == BNShiftLimbs(BNMulSmall(a, 2^(d % LimbBits)), d \div LimbBits)

\* a shifted right by d bits, and whether a non-zero bit was shifted out
BNShr(a, d) ==
    LET n    == d \div LimbBits
        kept == IF n >= Len(a) THEN <<>> ELSE SubSeq(a, n + 1, Len(a))
        lost == \E i \in 1..Len(a) : i <= n /\ a[i] # 0
        dv   == BNDivSmall(kept, 2^(d % LimbBits))
    IN  [q |-> dv.q, sticky |-> lost \/ dv.r # 0]

BNOdd(a) == a # <<>> /\ a[1] % 2 = 1

(***************************************************************************)
(* Exact dyadic numbers [m, e] = m * 2^e, and doubles: the dyadic numbers  *)
(* whose m has exactly MantBits bits, and zero [m |-> <<>>, e |-> 0].      *)
(***************************************************************************)
Dy(m, e) == [m |-> m, e |-> e]

DyZero == Dy(<<>>, 0)

Min(x, y) == IF x <= y THEN x ELSE y

\* m of x re-expressed at exponent e <= x.e
DyAt(x, e) == IF x.m = <<>> THEN <<>> ELSE BNShl(x.m, x.e - e)

DyMinExp(x, y) ==
    IF x.m = <<>> THEN y.e ELSE IF y.m = <<>> THEN x.e ELSE Min(x.e, y.e)

DyCmp(x, y) == LET e == DyMinExp(x, y) IN BNCmp(DyAt(x, e), DyAt(y, e))

DyAdd(x, y) ==
    LET e == DyMinExp(x, y) IN Dy(BNAdd(DyAt(x, e), DyAt(y, e)), e)

\* |x - y|
DyAbsDiff(x, y) ==
    LET e == DyMinExp(x, y)
        a == DyAt(x, e)
        b == DyAt(y, e)
    IN  IF BNCmp(a, b) >= 0 THEN Dy(BNSub(a, b), e) ELSE Dy(BNSub(b, a), e)

DyMul(x, y) == Dy(BNMul(x.m, y.m), x.e + y.e)

DyOfNat(n) == Dy(BNOfNat(n), 0)

\* m * 2^e (plus, when sticky, a positive amount below 2^e) rounded to the
\* nearest double, ties to even
Round53(m, e, sticky) ==
    LET L == BNBitLen(m)
    IN  IF L = 0 THEN DyZero
        ELSE IF L <= MantBits THEN Dy(BNShl(m, MantBits - L), e - (MantBits - L))
        ELSE LET d   == L - MantBits
                 sh  == BNShr(m, d - 1)
                 st  == sh.sticky \/ sticky
                 q   == BNShr(sh.q, 1).q
                 up  == BNOdd(sh.q) /\ (st \/ BNOdd(q))
                 q2  == IF up THEN BNAdd(q, <<1>>) ELSE q
             IN  IF BNBitLen(q2) > MantBits
                 THEN Dy(BNShr(q2, 1).q, e + d + 1)
                 ELSE Dy(q2, e + d)

\* the double nearest to x / n, for a dyadic x and 0 < n < Base
DyDivRound(x, n) ==
    IF x.m = <<>> THEN DyZero
    ELSE LET need == MantBits + 2 + NatBitLen(n) - BNBitLen(x.m)
             t    == IF need > 0 THEN need ELSE 0
             dv   == BNDivSmall(BNShl(x.m, t), n)
         IN  Round53(dv.q, x.e - t, dv.r # 0)

\* float(n) for a natural n
FloatOfNat(n) == Round53(BNOfNat(n), 0, FALSE)

\* float division a / b of two naturals, b > 0
FDiv(a, b) == DyDivRound(DyOfNat(a), b)

\* float multiplication
FMul(x, y) == Round53(BNMul(x.m, y.m), x.e + y.e, FALSE)

(***************************************************************************)
(* Python values held in a stats record: None, an int, a float, and the    *)
(* float that statistics.pstdev returns for a non-zero variance, which is  *)
(* sqrt(num / den) correctly rounded and is held by its radicand.          *)
(***************************************************************************)
PyNone == [t |-> "None"]

PyInt(n) == [t |-> "int", v |-> n]

PyFloat(d) == [t |-> "float", v |-> d]

PySqrt(num, den) == [t |-> "sqrt", num |-> num, den |-> den]

Hundred == FloatOfNat(100)

\* the exact value of an int or a float
ToDy(x) == IF x.t = "int" THEN DyOfNat(x.v) ELSE x.v

\* x * 100.0
Times100(x) ==
    IF x.t = "int" THEN PyFloat(FMul(FloatOfNat(x.v), Hundred))
    ELSE IF x.t = "float" THEN PyFloat(FMul(x.v, Hundred))
    ELSE PySqrt(DyMul(x.num, DyOfNat(10000)), x.den)

\* stats[key] = value on a dict
SetItem(d, k, v) == (k :> v) @@ d

EmptyDict == [x \in {} |-> PyNone]

(***************************************************************************)
(* statistics.mean and statistics.pstdev (CPython 3.11) on a non-empty     *)
(* list of ints or of floats.  mean sums exactly and rounds once; an exact *)
(* int mean of ints stays an int.  pstdev(data, mu) squares each x - mu in *)
(* the arithmetic of the operands, sums the squares exactly, divides by    *)
(* the number of data points and takes the square root.                    *)
(***************************************************************************)
RECURSIVE ExactSum(_, _)
ExactSum(data, i) ==
    IF i > Len(data) THEN DyZero ELSE DyAdd(ToDy(data[i]), ExactSum(data, i + 1))

RECURSIVE IntSum(_, _)
IntSum(data, i) == IF i > Len(data) THEN 0 ELSE data[i].v + IntSum(data, i + 1)

AllInts(data) == \A i \in 1..Len(data) : data[i].t = "int"

mean(data) ==
    IF AllInts(data)
    THEN LET total == IntSum(data, 1)
         IN  IF total % Len(data) = 0 THEN PyInt(total \div Len(data))
             ELSE PyFloat(FDiv(total, Len(data)))
    ELSE PyFloat(DyDivRound(ExactSum(data, 1), Len(data)))

\* (d := x - c) * d
SquaredDeviation(x, c) ==
    IF x.t = "int" /\ c.t = "int"
    THEN LET d == DyAbsDiff(ToDy(x), ToDy(c)) IN DyMul(d, d)
    ELSE LET a == DyAbsDiff(ToDy(x), ToDy(c))
             d == Round53(a.m, a.e, FALSE)
         IN  FMul(d, d)

RECURSIVE SumSquares(_, _, _)
SumSquares(data, c, i) ==
    IF i > Len(data) THEN DyZero
    ELSE DyAdd(SquaredDeviation(data[i], c), SumSquares(data, c, i + 1))

\* statistics.stdev in place of pstdev: the divisor is N - 1
stdev_sample(data, mu) ==
    LET ss == SumSquares(data, mu, 1)
    IN  IF ss.m = <<>> THEN PyFloat(DyZero) ELSE PySqrt(ss, Len(data) - 1)

pstdev(data, mu) ==
    LET ss == SumSquares(data, mu, 1)
    IN  IF ss.m = <<>> THEN PyFloat(DyZero) ELSE PySqrt(ss, Len(data))

(***************************************************************************)
(* The Surface, Cell and Gene the passes read.  A surface is a record      *)
(* [width, height, population, cells, interned]; population is the number  *)
(* of cells.  A cell is [gene, score, age, rules]: gene is the sequence of *)
(* choices ("c" or "d"; Python index 0 is TLA+ index 1), rules the set of  *)
(* classifiers is_tft .. is_allc that answer True for the cell.            *)
(*                                                                         *)
(* The choices are Python strings, and init_move_stats compares one with   *)
(* the literal 'd' by "is", that is by object identity.  Whether a string  *)
(* equal to 'd' is the very object of the literal is left open by the      *)
(* language: it depends on the interpreter and on how the Gene came by the *)
(* string (CPython 3.11 answers False for 'cd'[1], True for an interned    *)
(* 'd').  interned tells which of the two holds for the strings this       *)
(* surface's genes hand out.                                               *)
(***************************************************************************)
\* my_map calls f on every cell, in order; f is a function on the cells
my_map(s, f) == [i \in 1..Len(s.cells) |-> f[s.cells[i]]]

\* the cells a lambda handed to my_map is called on
CellsOf(s) == {s.cells[i] : i \in 1..Len(s.cells)}

get_all(s) == s.cells

get_gene(c) == c.gene

get_choice_at(g, i) == g[i + 1]

get_seq(g) == g

get_defect_fraction(g) ==
    PyFloat(FDiv(Cardinality({i \in 1..Len(g) : g[i] = "d"}), Len(g)))

get_score(c) == PyInt(c.score)

get_age(c) == PyInt(c.age)

is_rule(c, r) == r \in c.rules

\* what a pass leaves behind: the surface and the stats dict it was handed
Effect(s, st) == [surface |-> s, stats |-> st]

\* literal is move: the same object, which strings of different value never
\* are and strings of equal value are when the genes' strings are interned
Is(literal, move, s) == literal = move /\ s.interned

\* for move in initial_moves: if 'd' is move: init_move_frac += 1
RECURSIVE CountDefect(_, _, _)
CountDefect(moves, s, i) ==
    IF i > Len(moves) THEN 0
    ELSE (IF Is("d", moves[i], s) THEN 1 ELSE 0) + CountDefect(moves, s, i + 1)

\* the empty population reported as 0.0 instead of None
init_move_stats_zero(s, st) ==
    IF 0 # s.population
    THEN LET GetMove == [c \in CellsOf(s) |-> get_choice_at(get_gene(c), 1)]
             initial_moves == my_map(s, GetMove)
             init_move_frac == FDiv(CountDefect(initial_moves, s, 1), Len(initial_moves))
         IN  Effect(s, SetItem(st, "init_move_frac", PyFloat(FMul(init_move_frac, Hundred))))
    ELSE Effect(s, SetItem(st, "init_move_frac", Times100(PyInt(0))))

init_move_stats(s, st) ==
    IF 0 # s.population
    THEN LET GetMove == [c \in CellsOf(s) |-> get_choice_at(get_gene(c), 1)]
             initial_moves == my_map(s, GetMove)
             init_move_frac == FDiv(CountDefect(initial_moves, s, 1), Len(initial_moves))
         IN  Effect(s, SetItem(st, "init_move_frac", PyFloat(FMul(init_move_frac, Hundred))))
    ELSE Effect(s, SetItem(st, "init_move_frac", PyNone))

fraction_def_stats(s, st) ==
    LET GetFrac == [c \in CellsOf(s) |-> get_defect_fraction(get_gene(c))]
        fraction_defect == my_map(s, GetFrac)
        m  == IF 0 # s.population THEN mean(fraction_defect) ELSE PyInt(0)
        sd == IF 0 # s.population THEN pstdev(fraction_defect, m) ELSE PyInt(0)
    IN  Effect(s, SetItem(SetItem(st, "def_frac_mean", Times100(m)),
                          "def_frac_stddev", Times100(sd)))

\* the opening move popped off each gene before it is measured
gene_length_stats_pop(s, st) ==
    LET GetLen == [c \in CellsOf(s) |-> PyInt(Len(get_seq(get_gene(c))) - 1)]
        lengths == my_map(s, GetLen)
        m  == IF 0 # s.population THEN mean(lengths) ELSE PyNone
        sd == IF 0 # s.population THEN pstdev(lengths, m) ELSE PyNone
        popped == [s EXCEPT !.cells =
                      [i \in 1..Len(s.cells) |-> [s.cells[i] EXCEPT !.gene = Tail(@)]]]
    IN  Effect(popped, SetItem(SetItem(st, "length_mean", m), "length_stddev", sd))

gene_length_stats(s, st) ==
    LET GetLen == [c \in CellsOf(s) |-> PyInt(Len(get_seq(get_gene(c))) - 1)]
        lengths == my_map(s, GetLen)
        m  == IF 0 # s.population THEN mean(lengths) ELSE PyNone
        sd == IF 0 # s.population THEN pstdev(lengths, m) ELSE PyNone
    IN  Effect(s, SetItem(SetItem(st, "length_mean", m), "length_stddev", sd))

get_score_stats(s, st) ==
    LET scores == my_map(s, [c \in CellsOf(s) |-> get_score(c)])
        m  == IF 0 # s.population THEN mean(scores) ELSE PyNone
        sd == IF 0 # s.population THEN pstdev(scores, m) ELSE PyNone
    IN  Effect(s, SetItem(SetItem(st, "scores_mean", m), "scores_stddev", sd))

\* the stddev stored under the key of the score pass
get_age_stats_wrong_key(s, st) ==
    LET ages == my_map(s, [c \in CellsOf(s) |-> get_age(c)])
        m  == IF 0 # s.population THEN mean(ages) ELSE PyNone
        sd == IF 0 # s.population THEN pstdev(ages, m) ELSE PyNone
    IN  Effect(s, SetItem(SetItem(st, "age_mean", m), "scores_stddev", sd))

get_age_stats(s, st) ==
    LET ages == my_map(s, [c \in CellsOf(s) |-> get_age(c)])
        m  == IF 0 # s.population THEN mean(ages) ELSE PyNone
        sd == IF 0 # s.population THEN pstdev(ages, m) ELSE PyNone
    IN  Effect(s, SetItem(SetItem(st, "age_mean", m), "age_stddev", sd))

(***************************************************************************)
(* get_rule_stats: the counters num_tfts .. num_allc as a record, the body *)
(* of the loop over get_all(), and the fractions written at the end.       *)
(***************************************************************************)
ZeroCounts == [tft |-> 0, t2t |-> 0, ftf |-> 0, alld |-> 0, allc |-> 0]

\* the last two tests written with "if" in place of "elif"
RuleLoopBodyIf(c, num) ==
    LET first == IF is_rule(c, "tft") THEN [num EXCEPT !.tft = @ + 1]
                 ELSE IF is_rule(c, "t2t") THEN [num EXCEPT !.t2t = @ + 1]
                 ELSE IF is_rule(c, "ftf") THEN [num EXCEPT !.ftf = @ + 1]
                 ELSE num
        then  == IF is_rule(c, "alld") THEN [first EXCEPT !.alld = @ + 1]
                 ELSE IF is_rule(c, "allc") THEN [first EXCEPT !.allc = @ + 1]
                 ELSE first
    IN  then

\* if c.is_tft(): ... elif c.is_t2t(): ... elif ... (one iteration)
RuleLoopBody(c, num) ==
    IF is_rule(c, "tft") THEN [num EXCEPT !.tft = @ + 1]
    ELSE IF is_rule(c, "t2t") THEN [num EXCEPT !.t2t = @ + 1]
    ELSE IF is_rule(c, "ftf") THEN [num EXCEPT !.ftf = @ + 1]
    ELSE IF is_rule(c, "alld") THEN [num EXCEPT !.alld = @ + 1]
    ELSE IF is_rule(c, "allc") THEN [num EXCEPT !.allc = @ + 1]
    ELSE num

\* the loop from the i-th cell of get_all() on
RECURSIVE RuleLoop(_, _, _)
RuleLoop(cells, i, num) ==
    IF i > Len(cells) THEN num
    ELSE RuleLoop(cells, i + 1, RuleLoopBody(cells[i], num))

\* the fractions stored without the scaling to a percentage
RuleFractionsUnscaled(s, st, num) ==
    LET Frac(k) == PyFloat(FDiv(k, s.population))
    IN  SetItem(SetItem(SetItem(SetItem(SetItem(st,
            "rule_frac_tfts", Frac(num.tft)),
            "rule_frac_t2ts", Frac(num.t2t)),
            "rule_frac_ftfs", Frac(num.ftf)),
            "rule_frac_alld", Frac(num.alld)),
            "rule_frac_allc", Frac(num.allc))

\* frac_x = float(num_x)/surface.population; stats[...] = frac_x * 100.0
RuleFractions(s, st, num) ==
    LET Frac(k) == PyFloat(FMul(FDiv(k, s.population), Hundred))
    IN  SetItem(SetItem(SetItem(SetItem(SetItem(st,
            "rule_frac_tfts", Frac(num.tft)),
            "rule_frac_t2ts", Frac(num.t2t)),
            "rule_frac_ftfs", Frac(num.ftf)),
            "rule_frac_alld", Frac(num.alld)),
            "rule_frac_allc", Frac(num.allc))

\* the else branch: every frac is the int 0, stats[...] = 0 * 100.0
RuleFractionsEmpty(st) ==
    LET z == Times100(PyInt(0))
    IN  SetItem(SetItem(SetItem(SetItem(SetItem(st,
            "rule_frac_tfts", z), "rule_frac_t2ts", z), "rule_frac_ftfs", z),
            "rule_frac_alld", z), "rule_frac_allc", z)

get_rule_stats(s, st) ==
    IF 0 # s.population
    THEN Effect(s, RuleFractions(s, st, RuleLoop(get_all(s), 1, ZeroCounts)))
    ELSE Effect(s, RuleFractionsEmpty(st))

get_population_stats(s, st) ==
    LET map_size == s.width * s.height
        rel_population == FDiv(s.population, map_size)
    IN  Effect(s, SetItem(SetItem(st, "pop_rel", PyFloat(FMul(rel_population, Hundred))),
                          "pop_abs", PyInt(s.population)))

\* the call of one pass by name
CallPass(p, s, st) ==
    CASE p = "init_move_stats"      -> init_move_stats(s, st)
      [] p = "fraction_def_stats"   -> fraction_def_stats(s, st)
      [] p = "gene_length_stats"    -> gene_length_stats(s, st)
      [] p = "get_score_stats"      -> get_score_stats(s, st)
      [] p = "get_rule_stats"       -> get_rule_stats(s, st)
      [] p = "get_age_stats"        -> get_age_stats(s, st)
      [] p = "get_population_stats" -> get_population_stats(s, st)

\* get_stats calling the population pass as well
get_stats_calls_with_population ==
    <<"init_move_stats", "fraction_def_stats", "gene_length_stats",
      "get_score_stats", "get_rule_stats", "get_age_stats", "get_population_stats">>

\* the calls in the body of get_stats, in order
get_stats_calls ==
    <<"init_move_stats", "fraction_def_stats", "gene_length_stats",
      "get_score_stats", "get_rule_stats", "get_age_stats">>

\* get_stats run as far as its n-th call
RECURSIVE GetStatsUpTo(_, _)
GetStatsUpTo(s, n) ==
    IF n = 0 THEN Effect(s, EmptyDict)
    ELSE LET before == GetStatsUpTo(s, n - 1)
         IN  CallPass(get_stats_calls[n], before.surface, before.stats)

get_stats(s) == GetStatsUpTo(s, Len(get_stats_calls)).stats

(***************************************************************************)
(* output_plot.  A record of the data (a Python dict) is the sequence of   *)
(* its <<key, value>> items in insertion order; plot_data is the sequence  *)
(* of its series, likewise in insertion order, each series keyed by its    *)
(* name.                                                                   *)
(***************************************************************************)
Keys(d) == {d[j][1] : j \in 1..Len(d)}

\* plot_data[key] = {'x': [], 'y': [], 'mode': 'lines+markers', 'name': key}
NewSeries(key) == [name |-> key, x |-> <<>>, y |-> <<>>, mode |-> "lines+markers"]

\* for key in data[0].keys(): plot_data[key] = {...}
InitPlotData(first) == [j \in 1..Len(first) |-> NewSeries(first[j][1])]

HasKey(pd, k) == \E j \in 1..Len(pd) : pd[j].name = k

\* plot_data[k]['x'].append(i); plot_data[k]['y'].append(v)
AppendPoint(pd, k, i, v) ==
    [j \in 1..Len(pd) |->
        IF pd[j].name = k
        THEN [pd[j] EXCEPT !.x = Append(@, i), !.y = Append(@, v)]
        ELSE pd[j]]

\* an unknown key skipped instead of raising
RECURSIVE FillFromLenient(_, _, _, _)
FillFromLenient(pd, i, d, j) ==
    IF j > Len(d) THEN [plot_data |-> pd, raised |-> FALSE]
    ELSE IF ~HasKey(pd, d[j][1]) THEN FillFromLenient(pd, i, d, j + 1)
    ELSE FillFromLenient(AppendPoint(pd, d[j][1], i, d[j][2]), i, d, j + 1)

\* for k, v in d.items(): ... from the j-th item of d on; a key that plot_data
\* does not hold raises KeyError and leaves the loop
RECURSIVE FillFrom(_, _, _, _)
FillFrom(pd, i, d, j) ==
    IF j > Len(d) THEN [plot_data |-> pd, raised |-> FALSE]
    ELSE IF ~HasKey(pd, d[j][1]) THEN [plot_data |-> pd, raised |-> TRUE]
    ELSE FillFrom(AppendPoint(pd, d[j][1], i, d[j][2]), i, d, j + 1)

\* the keys that occur in the data, in the order sorted() puts them
KeyOrder == <<"a", "b", "c">>

InKeySet(S, k) == k \in S

\* sorted(plot_data.keys())
SortedKeys(pd) ==
    LET S == {pd[j].name : j \in 1..Len(pd)}
        Test(k) == InKeySet(S, k)
    IN  SelectSeq(KeyOrder, Test)

SeriesOf(pd, k) == pd[CHOOSE j \in 1..Len(pd) : pd[j].name = k]

\* plot_data.keys() walked without sorted()
BuildToPlotUnsorted(pd) == pd

\* for k in sorted(plot_data.keys()): to_plot.append(go.Scatter(plot_data[k]))
BuildToPlot(pd) ==
    LET ks == SortedKeys(pd) IN [j \in 1..Len(ks) |-> SeriesOf(pd, ks[j])]

NoArtifact == [written |-> FALSE]

\* py.plot(to_plot, filename=path, auto_open=False)
PlotCall(figure) == [written |-> TRUE, figure |-> figure, auto_open |-> FALSE]

(***************************************************************************)
(* Inputs.                                                                 *)
(***************************************************************************)
MaxCells == 3

MaxPassCells == 2

GridWidth == 2

GridHeight == 2

MaxRuleCells == 5

MaxRecords == 3

Cell(g, sc, ag, rs) == [gene |-> g, score |-> sc, age |-> ag, rules |-> rs]

CellPool ==
    { Cell(<<"c", "d">>, 7, 1, {"tft"}),
      Cell(<<"d", "c">>, 7, 1, {"allc"}),
      Cell(<<"c", "d", "d">>, 0, 4, {"alld"}),
      Cell(<<"c", "c", "c", "d">>, 3, 2, {}),
      Cell(<<"c", "d", "c">>, 7, 3, {"t2t", "ftf"}),
      Cell(<<"d", "d">>, 2, 1, {"tft", "alld"}) }

SeqsUpTo(S, k) == UNION {[1..m -> S] : m \in 0..k}

SurfaceOf(cells, interned) ==
    [width |-> GridWidth, height |-> GridHeight,
     population |-> Len(cells), cells |-> cells, interned |-> interned]

Surfaces == {SurfaceOf(cs, b) : cs \in SeqsUpTo(CellPool, MaxCells), b \in BOOLEAN}

PassSurfaces ==
    {SurfaceOf(cs, b) : cs \in SeqsUpTo(CellPool, MaxPassCells), b \in BOOLEAN}

RuleKinds ==
    << {}, {"tft"}, {"t2t"}, {"ftf"}, {"alld"}, {"allc"},
       {"tft", "alld"}, {"t2t", "ftf", "allc"} >>

\* populations for the rule pass, each listed once whatever the order in
\* which get_all() yields its cells
RuleSurfaces ==
    {SurfaceOf([i \in 1..Len(ks) |-> Cell(<<"c", "c">>, 0, 0, RuleKinds[ks[i]])], TRUE) :
        ks \in {f \in SeqsUpTo(1..Len(RuleKinds), MaxRuleCells) :
                    \A i \in 1..(Len(f) - 1) : f[i] <= f[i + 1]}}

RecordPool ==
    { <<>>,
      << <<"a", 1>>, <<"b", 2>> >>,
      << <<"a", 3>>, <<"b", 4>> >>,
      << <<"b", 2>>, <<"a", 1>> >>,
      << <<"a", 5>> >>,
      << <<"c", 6>>, <<"a", 1>>, <<"b", 2>> >>,
      << <<"b", 7>>, <<"c", 8>>, <<"a", 9>> >> }

PlotInputs == SeqsUpTo(RecordPool, MaxRecords)

(***************************************************************************)
(* State.  surface and stats are the two objects every pass is handed; pc  *)
(* is the position of the running function and n its loop or call count;   *)
(* ran is the set of passes called so far; result holds what get_stats     *)
(* returned (<<>> before it returns); num are the counters of the rule     *)
(* pass; data, plot_data, to_plot, artifact and error belong to            *)
(* output_plot.                                                            *)
(***************************************************************************)
VARIABLES surface, stats, pc, n, ran, result, num,
          data, plot_data, to_plot, artifact, error

vars == <<surface, stats, pc, n, ran, result, num,
          data, plot_data, to_plot, artifact, error>>

statsVars == <<surface, stats, ran, result, num>>

plotVars == <<data, plot_data, to_plot, artifact, error>>

NoPlot ==
    /\ data = <<>>
    /\ plot_data = <<>>
    /\ to_plot = <<>>
    /\ artifact = NoArtifact
    /\ error = "none"

NoStats ==
    /\ surface = SurfaceOf(<<>>, TRUE)
    /\ stats = EmptyDict
    /\ ran = {}
    /\ result = <<>>
    /\ num = ZeroCounts

(***************************************************************************)
(* get_stats, one call of its body at a time.                              *)
(***************************************************************************)
Init ==
    /\ surface \in Surfaces
    /\ stats = EmptyDict
    /\ pc = "get_stats"
    /\ n = 0
    /\ ran = {}
    /\ result = <<>>
    /\ num = ZeroCounts
    /\ NoPlot

GetStatsCall ==
    /\ pc = "get_stats"
    /\ n < Len(get_stats_calls)
    /\ \E r \in {CallPass(get_stats_calls[n + 1], surface, stats)} :
           /\ surface' = r.surface
           /\ stats' = r.stats
    /\ ran' = ran \cup {get_stats_calls[n + 1]}
    /\ n' = n + 1
    /\ UNCHANGED <<pc, result, num>>
    /\ UNCHANGED plotVars

GetStatsReturn ==
    /\ pc = "get_stats"
    /\ n = Len(get_stats_calls)
    /\ result' = <<stats>>
    /\ pc' = "returned"
    /\ UNCHANGED <<surface, stats, n, ran, num>>
    /\ UNCHANGED plotVars

Next == GetStatsCall \/ GetStatsReturn

Spec == Init /\ [][Next]_vars

(***************************************************************************)
(* The passes called on their own, each once, in any order, on one shared  *)
(* stats dict.                                                             *)
(***************************************************************************)
InitPasses ==
    /\ surface \in PassSurfaces
    /\ stats = EmptyDict
    /\ pc = "passes"
    /\ n = 0
    /\ ran = {}
    /\ result = <<>>
    /\ num = ZeroCounts
    /\ NoPlot

Run(p) ==
    /\ pc = "passes"
    /\ p \notin ran
    /\ \E r \in {CallPass(p, surface, stats)} :
           /\ surface' = r.surface
           /\ stats' = r.stats
    /\ ran' = ran \cup {p}
    /\ UNCHANGED <<pc, n, result, num>>
    /\ UNCHANGED plotVars

RunInitMoveStats == Run("init_move_stats")

RunFractionDefStats == Run("fraction_def_stats")

RunGeneLengthStats == Run("gene_length_stats")

RunScoreStats == Run("get_score_stats")

RunAgeStats == Run("get_age_stats")

RunRuleStats == Run("get_rule_stats")

RunPopulationStats == Run("get_population_stats")

NextPasses ==
    \/ RunInitMoveStats
    \/ RunFractionDefStats
    \/ RunGeneLengthStats
    \/ RunScoreStats
    \/ RunAgeStats
    \/ RunRuleStats
    \/ RunPopulationStats

SpecPasses == InitPasses /\ [][NextPasses]_vars

(***************************************************************************)
(* get_rule_stats, one iteration of its loop at a time.                    *)
(***************************************************************************)
InitRule ==
    /\ surface \in RuleSurfaces
    /\ stats = EmptyDict
    /\ pc = "get_rule_stats"
    /\ n = 0
    /\ ran = {}
    /\ result = <<>>
    /\ num = ZeroCounts
    /\ NoPlot

RuleEmpty ==
    /\ pc = "get_rule_stats"
    /\ 0 = surface.population
    /\ stats' = RuleFractionsEmpty(stats)
    /\ pc' = "returned"
    /\ UNCHANGED <<surface, n, ran, result, num>>
    /\ UNCHANGED plotVars

RuleEnter ==
    /\ pc = "get_rule_stats"
    /\ 0 # surface.population
    /\ num' = ZeroCounts
    /\ n' = 0
    /\ pc' = "rule_loop"
    /\ UNCHANGED <<surface, stats, ran, result>>
    /\ UNCHANGED plotVars

RuleIterate ==
    /\ pc = "rule_loop"
    /\ n < Len(get_all(surface))
    /\ num' = RuleLoopBody(get_all(surface)[n + 1], num)
    /\ n' = n + 1
    /\ UNCHANGED <<surface, stats, pc, ran, result>>
    /\ UNCHANGED plotVars

RuleExit ==
    /\ pc = "rule_loop"
    /\ n = Len(get_all(surface))
    /\ stats' = RuleFractions(surface, stats, num)
    /\ pc' = "returned"
    /\ UNCHANGED <<surface, n, ran, result, num>>
    /\ UNCHANGED plotVars

NextRule == RuleEmpty \/ RuleEnter \/ RuleIterate \/ RuleExit

SpecRule == InitRule /\ [][NextRule]_vars

(***************************************************************************)
(* output_plot, one record of the data at a time.                          *)
(***************************************************************************)
InitPlot ==
    /\ NoStats
    /\ pc = "output_plot"
    /\ n = 0
    /\ data \in PlotInputs
    /\ plot_data = <<>>
    /\ to_plot = <<>>
    /\ artifact = NoArtifact
    /\ error = "none"

\* data[0] on an empty sequence
PlotNoData ==
    /\ pc = "output_plot"
    /\ data = <<>>
    /\ error' = "IndexError"
    /\ pc' = "raised"
    /\ UNCHANGED <<n, data, plot_data, to_plot, artifact>>
    /\ UNCHANGED statsVars

PlotInit ==
    /\ pc = "output_plot"
    /\ data # <<>>
    /\ plot_data' = InitPlotData(data[1])
    /\ n' = 0
    /\ pc' = "fill"
    /\ UNCHANGED <<data, to_plot, artifact, error>>
    /\ UNCHANGED statsVars

\* one turn of: for i, d in enumerate(data)
PlotFill ==
    /\ pc = "fill"
    /\ n < Len(data)
    /\ \E r \in {FillFrom(plot_data, n, data[n + 1], 1)} :
           /\ plot_data' = r.plot_data
           /\ IF r.raised
              THEN error' = "KeyError" /\ pc' = "raised" /\ n' = n
              ELSE error' = error /\ pc' = pc /\ n' = n + 1
    /\ UNCHANGED <<data, to_plot, artifact>>
    /\ UNCHANGED statsVars

PlotSort ==
    /\ pc = "fill"
    /\ n = Len(data)
    /\ to_plot' = BuildToPlot(plot_data)
    /\ pc' = "plot"
    /\ UNCHANGED <<n, data, plot_data, artifact, error>>
    /\ UNCHANGED statsVars

PlotWrite ==
    /\ pc = "plot"
    /\ artifact' = PlotCall(to_plot)
    /\ pc' = "done"
    /\ UNCHANGED <<n, data, plot_data, to_plot, error>>
    /\ UNCHANGED statsVars

NextPlot == PlotNoData \/ PlotInit \/ PlotFill \/ PlotSort \/ PlotWrite

SpecPlot == InitPlot /\ [][NextPlot]_vars
(***************************************************************************)
(* Properties.                                                             *)
(***************************************************************************)
NullKeys ==
    {"init_move_frac", "length_mean", "length_stddev", "scores_mean",
     "scores_stddev", "age_mean", "age_stddev"}

RuleKeys ==
    {"rule_frac_tfts", "rule_frac_t2ts", "rule_frac_ftfs", "rule_frac_alld",
     "rule_frac_allc"}

ZeroKeys == {"def_frac_mean", "def_frac_stddev"} \cup RuleKeys

PopulationKeys == {"pop_rel", "pop_abs"}

GetStatsKeys == NullKeys \cup ZeroKeys

FloatZero == PyFloat(DyZero)

\* |x - a / b| <= 2^tol, for a dyadic x and naturals a, b with b > 0
Within(x, a, b, tol) ==
    DyCmp(DyAbsDiff(DyMul(x, DyOfNat(b)), DyOfNat(a)), Dy(BNOfNat(b), tol)) <= 0

\* C1: for a surface with population = 0, get_stats returns a record whose
\* init_move_frac, length_*, scores_* and age_* entries are None and whose
\* def_frac_* and rule_frac_* entries are the float 0.0; every call of the
\* body goes through (none stops on a division by zero), so get_stats can
\* always take its next step until it has returned.
C1_EmptyPopulation ==
    surface.population = 0 =>
        /\ pc = "get_stats" => ENABLED Next
        /\ pc = "returned" =>
              /\ NullKeys \cup ZeroKeys \subseteq DOMAIN result[1]
              /\ \A k \in NullKeys : result[1][k] = PyNone
              /\ \A k \in ZeroKeys : result[1][k] = FloatZero

C1_Witness == pc = "returned" /\ surface.population = 0 /\ Len(result) = 1

\* C8: the record get_stats returns has exactly the 14 keys of its six
\* passes, for an empty and a non-empty surface alike, and pop_rel and
\* pop_abs are at no time in the stats dict get_stats builds.
C8_FourteenKeys ==
    /\ DOMAIN stats \cap PopulationKeys = {}
    /\ pc = "returned" =>
          /\ DOMAIN result[1] = GetStatsKeys
          /\ Cardinality(DOMAIN result[1]) = 14

C8_Witness ==
    pc = "returned" /\ surface.population > 0 /\ DOMAIN result[1] = GetStatsKeys

\* the number D of cells whose gene holds "d" at Python index 1
DefectAtOne(s) == Cardinality({i \in 1..Len(s.cells) : s.cells[i].gene[2] = "d"})

StddevPasses ==
    { [mean |-> "def_frac_mean", stddev |-> "def_frac_stddev", percent |-> TRUE],
      [mean |-> "length_mean", stddev |-> "length_stddev", percent |-> FALSE],
      [mean |-> "scores_mean", stddev |-> "scores_stddev", percent |-> FALSE],
      [mean |-> "age_mean", stddev |-> "age_stddev", percent |-> FALSE] }

EntityValue(P, c) ==
    IF P.mean = "def_frac_mean"
    THEN PyFloat(FDiv(Cardinality({i \in 1..Len(c.gene) : c.gene[i] = "d"}), Len(c.gene)))
    ELSE IF P.mean = "length_mean" THEN PyInt(Len(c.gene) - 1)
    ELSE IF P.mean = "scores_mean" THEN PyInt(c.score)
    ELSE PyInt(c.age)

Uniform(P, s) ==
    \A i, j \in 1..Len(s.cells) : EntityValue(P, s.cells[i]) = EntityValue(P, s.cells[j])

RECURSIVE SumOf(_, _, _)
SumOf(P, cells, i) ==
    IF i > Len(cells) THEN 0 ELSE EntityValue(P, cells[i]).v + SumOf(P, cells, i + 1)

RECURSIVE SumOfSquares(_, _, _)
SumOfSquares(P, cells, i) ==
    IF i > Len(cells) THEN 0
    ELSE EntityValue(P, cells[i]).v * EntityValue(P, cells[i]).v
             + SumOfSquares(P, cells, i + 1)

\* the mean output is exactly the sum of the (integer) values over N
ExactMean(m, total, N) ==
    /\ m.t \in {"int", "float"}
    /\ DyCmp(DyMul(ToDy(m), DyOfNat(N)), DyOfNat(total)) = 0

\* sd is sqrt(V) for the population variance V = (N * sum x^2 - (sum x)^2) / N^2
IsPopulationStddev(sd, sx, sxx, N) ==
    IF N * sxx = sx * sx THEN sd = FloatZero
    ELSE /\ sd.t = "sqrt"
         /\ DyCmp(DyMul(sd.num, DyOfNat(N * N)),
                  DyOfNat(sd.den * (N * sxx - sx * sx))) = 0

NonNegative(sd) ==
    \/ sd = FloatZero
    \/ sd.t = "sqrt" /\ sd.num.m # <<>> /\ sd.den > 0

\* C10: every *_stddev output that get_stats stores for N > 0 cells is the
\* population standard deviation of the per-entity values: it is never
\* negative; where the mean is exact (integer values whose mean the float
\* holds exactly) its square is (N * sum x^2 - (sum x)^2) / N^2, the variance
\* with divisor N around that mean; and when all per-entity values are equal
\* it is exactly 0.0 and the mean output is the common value (for the def_frac
\* pass, whose outputs are percentages, the common fraction times 100.0).
C10_PopulationStddev ==
    \A P \in StddevPasses :
        (P.stddev \in DOMAIN stats /\ surface.population > 0) =>
            LET sd == stats[P.stddev]
                m  == stats[P.mean]
                N  == Len(surface.cells)
                v1 == EntityValue(P, surface.cells[1])
            IN  /\ NonNegative(sd)
                /\ Uniform(P, surface) =>
                      /\ sd = FloatZero
                      /\ m = (IF P.percent THEN Times100(v1) ELSE v1)
                /\ (~P.percent /\ ExactMean(m, SumOf(P, surface.cells, 1), N)) =>
                      IsPopulationStddev(sd, SumOf(P, surface.cells, 1),
                                         SumOfSquares(P, surface.cells, 1), N)

\* three cells of score 7 whose ages differ, all passes done
C10_Witness ==
    /\ pc = "returned"
    /\ Len(surface.cells) = 3
    /\ \A i \in 1..3 : surface.cells[i].score = 7
    /\ stats["scores_stddev"] = FloatZero
    /\ stats["scores_mean"] = PyInt(7)
    /\ stats["age_stddev"].t = "sqrt"

(***************************************************************************)
(* C6, C7: the passes in any order.                                        *)
(***************************************************************************)
PassKeys(p) ==
    CASE p = "init_move_stats"      -> {"init_move_frac"}
      [] p = "fraction_def_stats"   -> {"def_frac_mean", "def_frac_stddev"}
      [] p = "gene_length_stats"    -> {"length_mean", "length_stddev"}
      [] p = "get_score_stats"      -> {"scores_mean", "scores_stddev"}
      [] p = "get_rule_stats"       -> RuleKeys
      [] p = "get_age_stats"        -> {"age_mean", "age_stddev"}
      [] p = "get_population_stats" -> PopulationKeys

SixPasses ==
    {"init_move_stats", "fraction_def_stats", "gene_length_stats",
     "get_score_stats", "get_rule_stats", "get_age_stats"}

AllPasses == SixPasses \cup {"get_population_stats"}

KeysDisjoint ==
    \A p, q \in AllPasses : p # q => PassKeys(p) \cap PassKeys(q) = {}

\* one pass p has just run: it wrote its own keys and nothing else
WroteOwnKeys ==
    \A p \in AllPasses :
        (p \notin ran /\ ran' = ran \cup {p}) =>
            /\ DOMAIN stats' = DOMAIN stats \cup PassKeys(p)
            /\ \A k \in DOMAIN stats \ PassKeys(p) : stats'[k] = stats[k]

SameAsGetStats ==
    SixPasses \subseteq ran =>
        \E r \in {get_stats(surface)} :
            \A k \in GetStatsKeys : k \in DOMAIN stats /\ stats[k] = r[k]

\* C6: the passes write pairwise disjoint key sets; a pass writes exactly its
\* own keys and leaves every other key of the shared dict as it was; so once
\* the six passes of get_stats have run, in whatever order, the dict holds
\* under the 14 keys what get_stats returns for that surface.
C6_AnyOrder ==
    /\ [](KeysDisjoint /\ SameAsGetStats)
    /\ [][WroteOwnKeys]_vars

C6_Witness ==
    /\ SixPasses \subseteq ran
    /\ surface.population = 2
    /\ stats["age_stddev"].t = "sqrt"
    /\ stats["scores_stddev"] = FloatZero

\* C7: no pass changes the surface or any of its cells: width, height,
\* population and every cell's gene, score, age and classification are after
\* each pass what they were before it.
C7_SurfaceUnchanged == [][surface' = surface]_vars

C7_Witness ==
    /\ ran = AllPasses
    /\ surface.population > 0
    /\ \E i \in 1..Len(surface.cells) : Len(surface.cells[i].gene) > 2

(***************************************************************************)
(* C4, C5: the rule pass.                                                  *)
(***************************************************************************)
RuleOrder == <<"tft", "t2t", "ftf", "alld", "allc">>

\* the earliest classifier, in the order of the tests, that holds for c
\* ("none" when none does)
FirstMatch(c) ==
    IF \E j \in 1..5 : RuleOrder[j] \in c.rules
    THEN RuleOrder[CHOOSE j \in 1..5 :
                      /\ RuleOrder[j] \in c.rules
                      /\ \A h \in 1..(j - 1) : RuleOrder[h] \notin c.rules]
    ELSE "none"

\* the number of the first k cells counted under rule r
Counted(s, k, r) == Cardinality({i \in 1..k : FirstMatch(s.cells[i]) = r})

\* C4: while get_rule_stats loops over a non-empty population, each counter
\* holds the number of cells handled so far whose earliest true classifier,
\* in the order tft, t2t, ftf, alld, allc, is its own: a cell adds one to at
\* most one counter, a cell matching several is counted under the earliest
\* only, a cell matching none under no counter.
C4_FirstMatchWins ==
    pc = "rule_loop" =>
        /\ \A r \in {"tft", "t2t", "ftf", "alld", "allc"} : num[r] = Counted(surface, n, r)
        /\ num.tft + num.t2t + num.ftf + num.alld + num.allc
               = n - Counted(surface, n, "none")

C4_Witness ==
    /\ pc = "rule_loop"
    /\ n = Len(surface.cells)
    /\ \E i, j \in 1..n :
          /\ surface.cells[i].rules = {"t2t", "ftf", "allc"}
          /\ surface.cells[j].rules = {}
    /\ num.t2t = 1 /\ num.ftf = 0 /\ num.allc = 0

RuleKeyOf(r) ==
    CASE r = "tft" -> "rule_frac_tfts" [] r = "t2t" -> "rule_frac_t2ts"
      [] r = "ftf" -> "rule_frac_ftfs" [] r = "alld" -> "rule_frac_alld"
      [] r = "allc" -> "rule_frac_allc"

\* the exact sum of the five rule_frac_* outputs
RECURSIVE RuleFracSum(_, _)
RuleFracSum(st, j) ==
    IF j > 5 THEN DyZero
    ELSE DyAdd(st[RuleKeyOf(RuleOrder[j])].v, RuleFracSum(st, j + 1))

Classified(s) == Len(s.cells) - Counted(s, Len(s.cells), "none")

OneOfEach(s) ==
    /\ Len(s.cells) = 5
    /\ \A j \in 1..5 : Counted(s, 5, RuleOrder[j]) = 1

Twenty == PyFloat(FloatOfNat(20))

RuleDone == pc = "returned" /\ surface.population > 0

\* each output is 100 * count / N (to the rounding of its two float operations)
EachIsPercentage ==
    \A j \in 1..5 :
        LET v == stats[RuleKeyOf(RuleOrder[j])]
        IN  /\ v.t = "float"
            /\ Within(v.v, 100 * Counted(surface, Len(surface.cells), RuleOrder[j]),
                      Len(surface.cells), -46)

OneOfEachIsTwenty ==
    OneOfEach(surface) => \A k \in RuleKeys : stats[k] = Twenty

\* C5 as stated: each rule_frac_* is 100 * count / N, the sum of the five is at
\* most 100 and is 100 exactly when every cell satisfies a classifier, and one
\* cell of each category among five gives 20.0 for each.
C5_AsStated ==
    RuleDone =>
        /\ EachIsPercentage
        /\ DyCmp(RuleFracSum(stats, 1), Hundred) <= 0
        /\ DyCmp(RuleFracSum(stats, 1), Hundred) = 0
               <=> Classified(surface) = Len(surface.cells)
        /\ OneOfEachIsTwenty

\* C5 as amended: each rule_frac_* is the float float(count) / N * 100.0, which
\* is 100 * count / N to within rounding (2^-46); the sum of the five is
\* 100 * K / N, K the number of cells satisfying a classifier, to within
\* rounding (2^-43), so it is exactly 100 only if every cell satisfies one,
\* while for an exhaustive classification it may differ from 100 by that
\* rounding; one cell of each category among five gives exactly 20.0 for each.
C5_UpToRounding ==
    RuleDone =>
        /\ EachIsPercentage
        /\ Within(RuleFracSum(stats, 1), 100 * Classified(surface),
                  Len(surface.cells), -43)
        /\ DyCmp(RuleFracSum(stats, 1), Hundred) = 0
               => Classified(surface) = Len(surface.cells)
        /\ OneOfEachIsTwenty

\* three cells, each classified, whose fractions do not add up to 100
C5_Witness ==
    /\ RuleDone
    /\ Len(surface.cells) = 3
    /\ Classified(surface) = 3
    /\ DyCmp(RuleFracSum(stats, 1), Hundred) < 0

(***************************************************************************)
(* C2, C3: output_plot.                                                    *)
(***************************************************************************)
KeySetsDiffer == \E i \in 1..Len(data) : Keys(data[i]) # Keys(data[1])

ExtraKey == \E i \in 1..Len(data) : ~(Keys(data[i]) \subseteq Keys(data[1]))

PlotEnded == pc \in {"done", "raised"}

\* C2 as stated: on a non-empty sequence of records one of which has a key set
\* other than that of records[0], output_plot raises the key error and the
\* plotting call is not reached.
C2_AsStated ==
    (data # <<>> /\ KeySetsDiffer) =>
        /\ pc # "plot" /\ pc # "done"
        /\ artifact = NoArtifact
        /\ PlotEnded => (pc = "raised" /\ error = "KeyError")

\* C2 as amended: on a non-empty sequence of records output_plot raises KeyError,
\* and does not reach the plotting call, exactly when some record has a key
\* that records[0] lacks; a record that only lacks keys of records[0] raises
\* nothing, and the artifact is written.
C2_ExtraKeyRaises ==
    data # <<>> =>
        /\ ExtraKey => (pc # "plot" /\ pc # "done" /\ artifact = NoArtifact)
        /\ PlotEnded =>
              /\ ExtraKey <=> (pc = "raised" /\ error = "KeyError")
              /\ ~ExtraKey <=> (pc = "done" /\ artifact.written)

C2_Witness ==
    /\ pc = "raised"
    /\ error = "KeyError"
    /\ Len(data) = 2
    /\ Keys(data[1]) = {"a", "b"}
    /\ Keys(data[2]) = {"a", "b", "c"}
    /\ artifact = NoArtifact

Rank(k) == CHOOSE j \in 1..Len(KeyOrder) : KeyOrder[j] = k

ValueAt(d, k) == d[CHOOSE j \in 1..Len(d) : d[j][1] = k][2]

\* C3: for a non-empty sequence of records that all have the key set of
\* records[0], the figure handed to the plotting call has exactly one series
\* per key, named by it, with x = 0 .. n-1 and y the key's values in record
\* order, the series standing in sorted order of their names.
C3_SeriesPerKey ==
    (pc = "done" /\ ~KeySetsDiffer) =>
        LET fig == artifact.figure
        IN  /\ artifact.written
            /\ Len(fig) = Cardinality(Keys(data[1]))
            /\ {fig[j].name : j \in 1..Len(fig)} = Keys(data[1])
            /\ \A j \in 1..(Len(fig) - 1) : Rank(fig[j].name) < Rank(fig[j + 1].name)
            /\ \A j \in 1..Len(fig) :
                  /\ fig[j].x = [i \in 1..Len(data) |-> i - 1]
                  /\ fig[j].y = [i \in 1..Len(data) |-> ValueAt(data[i], fig[j].name)]

\* the records {b: 2, a: 1}, {a: 3, b: 4}: series a = (0,1),(1,3), then b = (0,2),(1,4)
C3_Witness ==
    /\ pc = "done"
    /\ data = << << <<"b", 2>>, <<"a", 1>> >>, << <<"a", 3>>, <<"b", 4>> >> >>
    /\ Len(artifact.figure) = 2
    /\ artifact.figure[1] = [name |-> "a", x |-> <<0, 1>>, y |-> <<1, 3>>,
                             mode |-> "lines+markers"]
    /\ artifact.figure[2] = [name |-> "b", x |-> <<0, 1>>, y |-> <<2, 4>>,
                             mode |-> "lines+markers"]
====
